---- MODULE Spec2Model ----
(***************************************************************************)
(* A model of lib/CoinGecko.js: the endpoint methods, the request option  *)
(* builder and the HTTPS request/response cycle of the CoinGecko client.  *)
(*                                                                         *)
(* Text is a sequence of tokens (a token is a word of unreserved          *)
(* characters or one reserved character), so that concatenation is \o and *)
(* percent-encoding, joining and JSON parsing are computed token by token. *)
(* A JavaScript value is a record [t |-> type, v |-> tokens]; a params     *)
(* object lives in the caller's heap and is passed by reference.           *)
(***************************************************************************)
EXTENDS Integers, Sequences, FiniteSets, TLC

VARIABLES heap, pc, args, req, res, body, promise, built, settle

vars == <<heap, pc, args, req, res, body, promise, built, settle>>

(***************************************************************************)
(* Bounds                                                                  *)
(***************************************************************************)
MaxParams == 2

MaxChunk == 2

(***************************************************************************)
(* JavaScript values                                                       *)
(***************************************************************************)
Undefined == [t |-> "undefined", v |-> <<>>]

Null == [t |-> "null", v |-> <<>>]

Str(s) == [t |-> "string", v |-> s]

Num(tok) == [t |-> "number", v |-> <<tok>>]

Arr(elems) == [t |-> "array", v |-> elems]

Ref(o) == [t |-> "object", v |-> <<o>>]

Objs == {"o1"}

Calls == {1, 2}

RECURSIVE Join(_, _)
Join(elems, sep) ==
    IF elems = <<>> THEN <<>>
    ELSE IF Len(elems) = 1 THEN <<elems[1]>>
    ELSE <<elems[1], sep>> \o Join(Tail(elems), sep)

\* `${x}` in a template literal: ToString of the value
Template(x) ==
    CASE x.t = "string" -> x.v
      [] x.t = "number" -> x.v
      [] x.t = "undefined" -> <<"undefined">>
      [] x.t = "null" -> <<"null">>
      [] x.t = "array" -> Join(x.v, ",")
      [] OTHER -> <<"[object Object]">>

\* obj[key] on a mapping held as a sequence of [k, val] entries in insertion order
RECURSIVE Get(_, _)
Get(m, key) ==
    IF m = <<>> THEN Undefined
    ELSE IF m[1].k = key THEN m[1].val
    ELSE Get(Tail(m), key)

HasKey(m, key) == \E i \in 1..Len(m) : m[i].k = key

\* obj[key] = val: an existing key keeps its position, a new key is appended
Put(m, key, val) ==
    IF HasKey(m, key)
    THEN [i \in 1..Len(m) |-> IF m[i].k = key THEN [k |-> key, val |-> val] ELSE m[i]]
    ELSE Append(m, [k |-> key, val |-> val])

\* params[key] for a params argument that is an object
Prop(h, params, key) == Get(h[params.v[1]], key)

(***************************************************************************)
(* helpers/utilities, helpers/constants, helpers/ReturnObject              *)
(***************************************************************************)
isString(x) == x.t = "string"

isStringEmpty(x) == x.t = "string" /\ x.v = <<>>

isObject(x) == x.t = "object"

isArray(x) == x.t = "array"

\* Utils._WARN_(title, detail) signals an error named by its title
WARN(title) == [kind |-> title]

API_VERSION == "3"

HOST == "api.coingecko.com"

ReturnObject(success, message, code, data) ==
    [success |-> success, message |-> message, code |-> code, data |-> data]

(***************************************************************************)
(* querystring.stringify                                                   *)
(***************************************************************************)
Reserved == {",", " ", "&", "=", "/", "?", ":"}

qsEscape(tok) ==
    CASE tok = "," -> "%2C"
      [] tok = " " -> "%20"
      [] tok = "&" -> "%26"
      [] tok = "=" -> "%3D"
      [] tok = "/" -> "%2F"
      [] tok = "?" -> "%3F"
      [] tok = ":" -> "%3A"
      [] OTHER -> tok

EscapeText(s) == [i \in 1..Len(s) |-> qsEscape(s[i])]

\* stringifyPrimitive: strings, finite numbers and booleans print, the rest is ''
stringifyPrimitive(x) ==
    IF x.t \in {"string", "number", "boolean"} THEN x.v ELSE <<>>

RECURSIVE stringifyArray(_, _)
stringifyArray(ks, elems) ==
    IF elems = <<>> THEN <<>>
    ELSE ks \o EscapeText(<<elems[1]>>)
         \o (IF Len(elems) > 1 THEN <<"&">> \o stringifyArray(ks, Tail(elems)) ELSE <<>>)

RECURSIVE stringifyFrom(_, _)
stringifyFrom(m, fields) ==
    IF m = <<>> THEN fields
    ELSE LET ks == EscapeText(<<m[1].k>>) \o <<"=">>
             x == m[1].val
         IN  IF isArray(x)
             THEN IF x.v = <<>> THEN stringifyFrom(Tail(m), fields)
                  ELSE stringifyFrom(Tail(m),
                           fields \o (IF fields # <<>> THEN <<"&">> ELSE <<>>)
                                  \o stringifyArray(ks, x.v))
             ELSE stringifyFrom(Tail(m),
                      fields \o (IF fields # <<>> THEN <<"&">> ELSE <<>>)
                             \o ks \o EscapeText(stringifyPrimitive(x)))

stringify(m) == stringifyFrom(m, <<>>)

(***************************************************************************)
(* JSON.parse and String.prototype.startsWith on the decoded body          *)
(***************************************************************************)
NumberTokens == {"1"}

StringLiterals == {"\"a\""}

Unquote(tok) == CASE tok = "\"a\"" -> "a" [] OTHER -> tok

JObj(m) == [t |-> "json", v |-> m]

SyntaxError == [kind |-> "SyntaxError"]

\* JSON.parse(text): [ok |-> TRUE, val |-> value] or [ok |-> FALSE, val |-> the error thrown]
JSONparse(s) ==
    IF Len(s) = 1 /\ s[1] \in NumberTokens
    THEN [ok |-> TRUE, val |-> Num(s[1])]
    ELSE IF Len(s) = 1 /\ s[1] \in StringLiterals
    THEN [ok |-> TRUE, val |-> Str(<<Unquote(s[1])>>)]
    ELSE IF s = <<"{", "}">>
    THEN [ok |-> TRUE, val |-> JObj(<<>>)]
    ELSE IF /\ Len(s) = 5
            /\ s[1] = "{" /\ s[2] \in StringLiterals /\ s[3] = ":"
            /\ s[4] \in NumberTokens /\ s[5] = "}"
    THEN [ok |-> TRUE, val |-> JObj(<<[k |-> Unquote(s[2]), val |-> Num(s[4])]>>)]
    ELSE [ok |-> FALSE, val |-> SyntaxError]

DOCTYPE == "<!DOCTYPE html>"

startsWith(s, marker) == s # <<>> /\ s[1] = marker

\* Buffer.concat(body).toString(): the chunks in arrival order as one text
RECURSIVE BufferConcat(_)
BufferConcat(chunks) ==
    IF chunks = <<>> THEN <<>> ELSE chunks[1] \o BufferConcat(Tail(chunks))

(***************************************************************************)
(* Promise settlement: the first resolve or reject wins, later ones are    *)
(* ignored                                                                 *)
(***************************************************************************)
NoPromise == [state |-> "none", value |-> [kind |-> "none"]]

Pending == [state |-> "pending", value |-> [kind |-> "none"]]

\* mutant of resolve: a later call replaces the outcome
resolve_overwrite(p, value) == [state |-> "fulfilled", value |-> value]

resolve(p, value) ==
    IF p.state = "pending" THEN [state |-> "fulfilled", value |-> value] ELSE p

reject(p, error) ==
    IF p.state = "pending" THEN [state |-> "rejected", value |-> error] ELSE p

(***************************************************************************)
(* _buildRequestOptions                                                    *)
(***************************************************************************)
toUpperCase(m) == CASE m = "get" -> "GET" [] OTHER -> m

\* mutant of buildRequestOptions: the version prefix is missing
buildRequestOptions_noPrefix(method, path, params, h) ==
    LET qs == IF isObject(params) THEN Str(stringify(h[params.v[1]])) ELSE Undefined
    IN  [path   |-> IF qs = Undefined THEN path ELSE path \o <<"?">> \o qs.v,
         method |-> toUpperCase(method),
         host   |-> HOST,
         port   |-> 443]

buildRequestOptions(method, path, params, h) ==
    LET qs == IF isObject(params) THEN Str(stringify(h[params.v[1]])) ELSE Undefined
        prefix == <<"/", "api", "/", "v", API_VERSION>>
    IN  [path   |-> IF qs = Undefined THEN prefix \o path
                    ELSE prefix \o path \o <<"?">> \o qs.v,
         method |-> toUpperCase(method),
         host   |-> HOST,
         port   |-> 443]

(***************************************************************************)
(* State                                                                   *)
(***************************************************************************)
NoArgs == [ep |-> "none", a1 |-> Undefined, a2 |-> Undefined, snap |-> <<>>]

NoRes == [statusCode |-> 0, statusMessage |-> "", rest |-> <<>>, error |-> ""]

\* what the caller passed: the endpoint, its two arguments and, for a params
\* object, its content when the call was made
CallArgs(ep, a1, a2) ==
    [ep |-> ep, a1 |-> a1, a2 |-> a2,
     snap |-> IF isObject(a2) THEN heap[a2.v[1]] ELSE <<>>]

\* an async method that throws before it returns: its promise is rejected
Throw(c, ep, a1, a2, error) ==
    /\ pc[c] = "idle"
    /\ pc' = [pc EXCEPT ![c] = "thrown"]
    /\ args' = [args EXCEPT ![c] = CallArgs(ep, a1, a2)]
    /\ promise' = [promise EXCEPT ![c] = reject(Pending, error)]
    /\ UNCHANGED <<heap, req, res, body, built, settle>>

\* _request(options): https.request is issued and ended, the promise is pending
request(c, options) ==
    /\ req' = [req EXCEPT ![c] = Append(@, options)]
    /\ promise' = [promise EXCEPT ![c] = Pending]
    /\ pc' = [pc EXCEPT ![c] = "sent"]

\* the common tail of every endpoint method: build the options, return the request
Send(c, ep, a1, a2, path, params, h) ==
    /\ pc[c] = "idle"
    /\ args' = [args EXCEPT ![c] = CallArgs(ep, a1, a2)]
    /\ heap' = h
    /\ request(c, buildRequestOptions("GET", path, params, h))
    /\ UNCHANGED <<res, body, built, settle>>

(***************************************************************************)
(* The events of one request                                               *)
(***************************************************************************)
\* the https.request callback: the response head has arrived, body = []
OnResponse(c, statuses, messages, bodies) ==
    /\ pc[c] = "sent"
    /\ \E code \in statuses, msg \in messages, b \in bodies :
          res' = [res EXCEPT ![c] = [statusCode |-> code, statusMessage |-> msg,
                                     rest |-> b, error |-> ""]]
    /\ body' = [body EXCEPT ![c] = <<>>]
    /\ pc' = [pc EXCEPT ![c] = "receiving"]
    /\ UNCHANGED <<heap, args, req, promise, built, settle>>

\* res.on('data'): body.push(chunk)
OnData(c) ==
    /\ pc[c] = "receiving"
    /\ \E n \in 1..MaxChunk :
          /\ n <= Len(res[c].rest)
          /\ body' = [body EXCEPT ![c] = Append(@, SubSeq(res[c].rest, 1, n))]
          /\ res' = [res EXCEPT ![c].rest = SubSeq(@, n + 1, Len(@))]
    /\ UNCHANGED <<heap, pc, args, req, promise, built, settle>>

\* mutants of statusOk: 200 itself left out; no upper end
statusOk_above200(statusCode) == ~(statusCode <= 200 \/ statusCode >= 300)

statusOk_noUpperEnd(statusCode) == ~(statusCode < 200)

statusOk(statusCode) == ~(statusCode < 200 \/ statusCode >= 300)

\* mutant of tryParse: the page check is missing
tryParse_noPageCheck(text) ==
    LET parsed == JSONparse(text)
    IN  IF parsed.ok
        THEN [threw |-> FALSE, error |-> [kind |-> "none"], data |-> parsed.val]
        ELSE [threw |-> TRUE, error |-> parsed.val, data |-> Str(text)]

\* the end handler's try/catch: the error it catches, or none
\* [threw, error, data]: data is what the variable body holds after the block
tryParse(text) ==
    IF startsWith(text, DOCTYPE)
    THEN [threw |-> TRUE, error |-> WARN("Invalid request"), data |-> Str(text)]
    ELSE LET parsed == JSONparse(text)
         IN  IF parsed.ok
             THEN [threw |-> FALSE, error |-> [kind |-> "none"], data |-> parsed.val]
             ELSE [threw |-> TRUE, error |-> parsed.val, data |-> Str(text)]

\* mutant of endCalls: the catch block swallows the error
endCalls_emptyCatch(r, chunks) ==
    LET t == tryParse(BufferConcat(chunks))
    IN  <<[op |-> "resolve",
           value |-> ReturnObject(statusOk(r.statusCode), r.statusMessage, r.statusCode, t.data)]>>

\* the settle calls of the end handler, in order: reject in the catch block when
\* the try block threw, then resolve with the return object in any case
endCalls(r, chunks) ==
    LET t == tryParse(BufferConcat(chunks))
        envelope == ReturnObject(statusOk(r.statusCode), r.statusMessage, r.statusCode, t.data)
    IN  (IF t.threw THEN <<[op |-> "reject", value |-> t.error]>> ELSE <<>>)
        \o <<[op |-> "resolve", value |-> envelope]>>

RECURSIVE apply(_, _)
apply(p, calls) ==
    IF calls = <<>> THEN p
    ELSE apply(IF calls[1].op = "reject" THEN reject(p, calls[1].value)
               ELSE resolve(p, calls[1].value),
               Tail(calls))

Ops(calls) == [i \in 1..Len(calls) |-> calls[i].op]

\* res.on('end')
OnEnd(c) ==
    /\ pc[c] = "receiving"
    /\ res[c].rest = <<>>
    /\ LET calls == endCalls(res[c], body[c])
       IN  /\ promise' = [promise EXCEPT ![c] = apply(@, calls)]
           /\ settle' = [settle EXCEPT ![c] = @ \o Ops(calls)]
    /\ built' = [built EXCEPT ![c] = @ + 1]
    /\ pc' = [pc EXCEPT ![c] = "ended"]
    /\ UNCHANGED <<heap, args, req, res, body>>

TransportErrors == {"ECONNRESET", "ETIMEDOUT"}

\* mutant of errorCalls: no error handler is registered
errorCalls_unhandled(e) == <<>>

\* the calls of the error handler
errorCalls(e) == <<[op |-> "reject", value |-> [kind |-> e]]>>

\* req.on('error'): the connection failed before the response ended
OnError(c) ==
    /\ pc[c] \in {"sent", "receiving"}
    /\ \E e \in TransportErrors :
          /\ res' = [res EXCEPT ![c].error = e]
          /\ promise' = [promise EXCEPT ![c] = apply(@, errorCalls(e))]
          /\ settle' = [settle EXCEPT ![c] = @ \o Ops(errorCalls(e))]
    /\ pc' = [pc EXCEPT ![c] = "failed"]
    /\ UNCHANGED <<heap, args, req, body, built>>

\* the caller has its outcome and uses the client again; its objects persist
Return(c) ==
    /\ pc[c] \in {"ended", "failed", "thrown"}
    /\ pc' = [pc EXCEPT ![c] = "idle"]
    /\ args' = [args EXCEPT ![c] = NoArgs]
    /\ req' = [req EXCEPT ![c] = <<>>]
    /\ res' = [res EXCEPT ![c] = NoRes]
    /\ body' = [body EXCEPT ![c] = <<>>]
    /\ promise' = [promise EXCEPT ![c] = NoPromise]
    /\ built' = [built EXCEPT ![c] = 0]
    /\ settle' = [settle EXCEPT ![c] = <<>>]
    /\ UNCHANGED heap

(***************************************************************************)
(* Endpoint methods.  I is the set of identifier arguments and P the set   *)
(* of params arguments the caller chooses from.                            *)
(***************************************************************************)
\* mutant of invalidId: the empty string passes
invalidId_typeOnly(id) == ~isString(id)

\* the check guarding every coinId and exchangeId
invalidId(id) == ~isString(id) \/ isStringEmpty(id)

\* mutant of unusableString: the empty string passes
unusableString_typeOnly(x) == ~isString(x)

\* the check guarding params.vs_currency and params.date
unusableString(x) == ~isString(x) \/ isStringEmpty(x)

InvalidParameter == WARN("Invalid parameter")

MissingParameter == WARN("Missing parameter")

ping(c) ==
    Send(c, "ping", Undefined, Undefined, <<"/", "ping">>, Undefined, heap)

global(c) ==
    Send(c, "global", Undefined, Undefined, <<"/", "global">>, Undefined, heap)

coins_all(c, P) ==
    \E params \in P :
        Send(c, "coins.all", Undefined, params, <<"/", "coins">>, params, heap)

coins_list(c) ==
    Send(c, "coins.list", Undefined, Undefined, <<"/", "coins", "/", "list">>, Undefined, heap)

\* mutant of defaultCurrency: only an absent vs_currency is defaulted
defaultCurrency_absentOnly(m) ==
    IF ~HasKey(m, "vs_currency") THEN Put(m, "vs_currency", Str(<<"usd">>)) ELSE m

\* params.vs_currency = 'usd' when it is not a usable string
defaultCurrency(m) ==
    IF unusableString(Get(m, "vs_currency")) THEN Put(m, "vs_currency", Str(<<"usd">>)) ELSE m

\* mutant of joinIds: the array is handed on as it is
joinIds_asGiven(m) == m

\* params.ids = params.ids.join(',') when it is an array
joinIds(m) ==
    IF isArray(Get(m, "ids")) THEN Put(m, "ids", Str(Join(Get(m, "ids").v, ","))) ELSE m

coins_markets(c, P) ==
    \E params \in P :
        IF ~isObject(params)
        THEN Throw(c, "coins.markets", Undefined, params, InvalidParameter)
        ELSE LET o == params.v[1]
             IN  Send(c, "coins.markets", Undefined, params,
                      <<"/", "coins", "/", "markets">>, params,
                      [heap EXCEPT ![o] = joinIds(defaultCurrency(@))])

coins_fetch(c, I, P) ==
    \E coinId \in I, params \in P :
        IF invalidId(coinId)
        THEN Throw(c, "coins.fetch", coinId, params, InvalidParameter)
        ELSE Send(c, "coins.fetch", coinId, params,
                  <<"/", "coins", "/">> \o Template(coinId), params, heap)

coins_fetchTickers(c, I, P) ==
    \E coinId \in I, params \in P :
        IF invalidId(coinId)
        THEN Throw(c, "coins.fetchTickers", coinId, params, InvalidParameter)
        ELSE Send(c, "coins.fetchTickers", coinId, params,
                  <<"/", "coins", "/">> \o Template(coinId) \o <<"/", "tickers">>, params, heap)

coins_fetchHistory(c, I, P) ==
    \E coinId \in I, params \in P :
        IF invalidId(coinId)
        THEN Throw(c, "coins.fetchHistory", coinId, params, InvalidParameter)
        ELSE IF ~isObject(params)
        THEN Throw(c, "coins.fetchHistory", coinId, params, InvalidParameter)
        ELSE IF unusableString(Prop(heap, params, "date"))
        THEN Throw(c, "coins.fetchHistory", coinId, params, MissingParameter)
        ELSE Send(c, "coins.fetchHistory", coinId, params,
                  <<"/", "coins", "/">> \o Template(coinId) \o <<"/", "history">>, params, heap)

\* mutant of defaultDays: every falsy days is defaulted
defaultDays_falsy(m) ==
    IF Get(m, "days").t \in {"undefined", "null"} \/ Get(m, "days") = Num("0")
    THEN Put(m, "days", Num("1")) ELSE m

\* params.days = 1 when params.days == undefined (undefined or null)
defaultDays(m) ==
    IF Get(m, "days").t \in {"undefined", "null"} THEN Put(m, "days", Num("1")) ELSE m

coins_fetchMarketChart(c, I, P) ==
    \E coinId \in I, params \in P :
        IF invalidId(coinId)
        THEN Throw(c, "coins.fetchMarketChart", coinId, params, InvalidParameter)
        ELSE IF ~isObject(params)
        THEN Throw(c, "coins.fetchMarketChart", coinId, params, InvalidParameter)
        ELSE LET o == params.v[1]
             IN  Send(c, "coins.fetchMarketChart", coinId, params,
                      <<"/", "coins", "/">> \o Template(coinId) \o <<"/", "market_chart">>,
                      params, [heap EXCEPT ![o] = defaultDays(defaultCurrency(@))])

coins_fetchStatusUpdates(c, I, P) ==
    \E coinId \in I, params \in P :
        IF invalidId(coinId)
        THEN Throw(c, "coins.fetchStatusUpdates", coinId, params, InvalidParameter)
        ELSE Send(c, "coins.fetchStatusUpdates", coinId, params,
                  <<"/", "coins", "/">> \o Template(coinId) \o <<"/", "status_updates">>,
                  params, heap)

exchanges_all(c) ==
    Send(c, "exchanges.all", Undefined, Undefined, <<"/", "exchanges">>, Undefined, heap)

exchanges_fetch(c, I) ==
    \E exchangeId \in I :
        IF invalidId(exchangeId)
        THEN Throw(c, "exchanges.fetch", exchangeId, Undefined, InvalidParameter)
        ELSE Send(c, "exchanges.fetch", exchangeId, Undefined,
                  <<"/", "exchanges", "/">> \o Template(exchangeId), Undefined, heap)

exchanges_fetchTickers(c, I, P) ==
    \E exchangeId \in I, params \in P :
        IF invalidId(exchangeId)
        THEN Throw(c, "exchanges.fetchTickers", exchangeId, params, InvalidParameter)
        ELSE Send(c, "exchanges.fetchTickers", exchangeId, params,
                  <<"/", "exchanges", "/">> \o Template(exchangeId) \o <<"/", "tickers">>,
                  params, heap)

exchanges_fetchStatusUpdates(c, I, P) ==
    \E exchangeId \in I, params \in P :
        IF invalidId(exchangeId)
        THEN Throw(c, "exchanges.fetchStatusUpdates", exchangeId, params, InvalidParameter)
        ELSE Send(c, "exchanges.fetchStatusUpdates", exchangeId, params,
                  <<"/", "exchanges", "/">> \o Template(exchangeId) \o <<"/", "status_updates">>,
                  params, heap)

statusUpdates_all(c, P) ==
    \E params \in P :
        Send(c, "statusUpdates.all", Undefined, params, <<"/", "status_updates">>, params, heap)

onChain_networks(c, P) ==
    \E params \in P :
        Send(c, "onChain.networks", Undefined, params,
             <<"/", "onchain", "/", "networks">>, params, heap)

onChain_tokenPrice(c, I, A) ==
    \E network \in I, addresses \in A :
        Send(c, "onChain.tokenPrice", network, addresses,
             <<"/", "onchain", "/", "simple", "/", "networks", "/">> \o Template(network)
                 \o <<"/", "token_price", "/">> \o Template(addresses),
             Undefined, heap)

onChain_dexes(c, I, P) ==
    \E network \in I, params \in P :
        Send(c, "onChain.dexes", network, params,
             <<"/", "onchain", "/", "networks", "/">> \o Template(network) \o <<"/", "dexes">>,
             params, heap)

onChain_trendingPools(c, P) ==
    \E params \in P :
        Send(c, "onChain.trendingPools", Undefined, params,
             <<"/", "onchain", "/", "networks", "/", "trending_pools">>, params, heap)

events_all(c, P) ==
    \E params \in P :
        Send(c, "events.all", Undefined, params, <<"/", "events">>, params, heap)

events_fetchCountries(c) ==
    Send(c, "events.fetchCountries", Undefined, Undefined,
         <<"/", "events", "/", "countries">>, Undefined, heap)

events_fetchTypes(c) ==
    Send(c, "events.fetchTypes", Undefined, Undefined,
         <<"/", "events", "/", "types">>, Undefined, heap)

exchangeRates_all(c) ==
    Send(c, "exchangeRates.all", Undefined, Undefined, <<"/", "exchange_rates">>, Undefined, heap)

(***************************************************************************)
(* Inputs                                                                  *)
(***************************************************************************)
\* the entries a caller's params object is made of
Entries ==
    {[k |-> "vs_currency", val |-> Str(<<"eur">>)],
     [k |-> "vs_currency", val |-> Str(<<>>)],
     [k |-> "vs_currency", val |-> Num("5")],
     [k |-> "date", val |-> Str(<<"30-12-2017">>)],
     [k |-> "date", val |-> Str(<<>>)],
     [k |-> "ids", val |-> Str(<<"bitcoin", ",", "ethereum">>)],
     [k |-> "ids", val |-> Arr(<<"bitcoin", "ethereum">>)],
     [k |-> "days", val |-> Num("0")],
     [k |-> "days", val |-> Null]}

\* the params objects of at most n entries with distinct keys, in every order
RECURSIVE MappingsUpTo(_)
MappingsUpTo(n) ==
    IF n = 0 THEN {<<>>}
    ELSE LET shorter == MappingsUpTo(n - 1)
         IN  shorter \cup {Append(m, e) : m \in {x \in shorter : Len(x) = n - 1},
                                          e \in Entries}

DistinctKeys(m) == \A i, j \in 1..Len(m) : m[i].k = m[j].k => i = j

KeyRank(k) ==
    CASE k = "vs_currency" -> 1 [] k = "date" -> 2 [] k = "ids" -> 3 [] OTHER -> 4

\* the keys were inserted in the order of the documentation or in the reverse order
InOrder(m) ==
    \/ \A i \in 1..(Len(m) - 1) : KeyRank(m[i].k) < KeyRank(m[i + 1].k)
    \/ \A i \in 1..(Len(m) - 1) : KeyRank(m[i].k) > KeyRank(m[i + 1].k)

Mappings == {m \in MappingsUpTo(MaxParams) : DistinctKeys(m) /\ InOrder(m)}

\* identifier arguments: absent, empty, valid identifiers (one of them a word
\* of the API's own paths), not a string
IdArgs == {Undefined, Str(<<>>), Str(<<"bitcoin">>), Str(<<"list">>), Num("7")}

\* params arguments: absent, not an object, the caller's object
ParamArgs == {Undefined, Str(<<"x">>)} \cup {Ref(o) : o \in Objs}

AddressArgs == {Undefined, Str(<<"0xabc">>)}

Statuses == {199, 200, 299, 300, 404, 500}

Messages == {"OK", "Not Found"}

Bodies ==
    {<<"{", "\"a\"", ":", "1", "}">>,
     <<"{", "}">>,
     <<"1">>,
     <<DOCTYPE, "<html>">>,
     <<"{", "\"a\"">>,
     <<"\"a\"", DOCTYPE>>,
     <<>>}

\* the call in flight in the single-call specifications
Solo == {1}

(***************************************************************************)
(* Spec: one call at a time on a reused client, with a valid identifier    *)
(* and every response the server and the network can produce               *)
(***************************************************************************)
InitCalls ==
    /\ pc = [c \in Calls |-> "idle"]
    /\ args = [c \in Calls |-> NoArgs]
    /\ req = [c \in Calls |-> <<>>]
    /\ res = [c \in Calls |-> NoRes]
    /\ body = [c \in Calls |-> <<>>]
    /\ promise = [c \in Calls |-> NoPromise]
    /\ built = [c \in Calls |-> 0]
    /\ settle = [c \in Calls |-> <<>>]

Init ==
    /\ heap = [o \in Objs |-> <<>>]
    /\ InitCalls

ValidIds == {Str(<<"bitcoin">>)}

SomeParams == {Undefined} \cup {Ref(o) : o \in Objs}

Next ==
    \E c \in Solo :
        \/ ping(c)
        \/ global(c)
        \/ coins_all(c, SomeParams)
        \/ coins_list(c)
        \/ coins_markets(c, SomeParams)
        \/ coins_fetch(c, ValidIds, SomeParams)
        \/ coins_fetchTickers(c, ValidIds, SomeParams)
        \/ coins_fetchHistory(c, ValidIds, SomeParams)
        \/ coins_fetchMarketChart(c, ValidIds, SomeParams)
        \/ coins_fetchStatusUpdates(c, ValidIds, SomeParams)
        \/ exchanges_all(c)
        \/ exchanges_fetch(c, ValidIds)
        \/ exchanges_fetchTickers(c, ValidIds, SomeParams)
        \/ exchanges_fetchStatusUpdates(c, ValidIds, SomeParams)
        \/ statusUpdates_all(c, SomeParams)
        \/ onChain_networks(c, SomeParams)
        \/ onChain_tokenPrice(c, ValidIds, ValidIds)
        \/ onChain_dexes(c, ValidIds, SomeParams)
        \/ onChain_trendingPools(c, SomeParams)
        \/ events_all(c, SomeParams)
        \/ events_fetchCountries(c)
        \/ events_fetchTypes(c)
        \/ exchangeRates_all(c)
        \/ OnResponse(c, Statuses, Messages, Bodies)
        \/ OnData(c)
        \/ OnEnd(c)
        \/ OnError(c)
        \/ Return(c)

Spec == Init /\ [][Next]_vars

(***************************************************************************)
(* SpecApi: one call at a time with every argument a caller can pass, on   *)
(* every params object, answered by one plain response                     *)
(***************************************************************************)
InitApi ==
    /\ heap \in [Objs -> Mappings]
    /\ InitCalls

PlainStatuses == {200}

PlainMessages == {"OK"}

PlainBodies == {<<"1">>}

NextApi ==
    \E c \in Solo :
        \/ ping(c)
        \/ global(c)
        \/ coins_all(c, ParamArgs)
        \/ coins_list(c)
        \/ coins_markets(c, ParamArgs)
        \/ coins_fetch(c, IdArgs, ParamArgs)
        \/ coins_fetchTickers(c, IdArgs, ParamArgs)
        \/ coins_fetchHistory(c, IdArgs, ParamArgs)
        \/ coins_fetchMarketChart(c, IdArgs, ParamArgs)
        \/ coins_fetchStatusUpdates(c, IdArgs, ParamArgs)
        \/ exchanges_all(c)
        \/ exchanges_fetch(c, IdArgs)
        \/ exchanges_fetchTickers(c, IdArgs, ParamArgs)
        \/ exchanges_fetchStatusUpdates(c, IdArgs, ParamArgs)
        \/ statusUpdates_all(c, ParamArgs)
        \/ onChain_networks(c, ParamArgs)
        \/ onChain_tokenPrice(c, IdArgs, AddressArgs)
        \/ onChain_dexes(c, IdArgs, ParamArgs)
        \/ onChain_trendingPools(c, ParamArgs)
        \/ events_all(c, ParamArgs)
        \/ events_fetchCountries(c)
        \/ events_fetchTypes(c)
        \/ exchangeRates_all(c)
        \/ OnResponse(c, PlainStatuses, PlainMessages, PlainBodies)
        \/ OnData(c)
        \/ OnEnd(c)
        \/ OnError(c)
        \/ Return(c)

SpecApi == InitApi /\ [][NextApi]_vars

(***************************************************************************)
(* Reading a state                                                         *)
(***************************************************************************)
\* the decoded text of the body received so far
Text(c) == BufferConcat(body[c])

\* the caller holds an envelope / an error
Fulfilled(c) == promise[c].state = "fulfilled"

Rejected(c) == promise[c].state = "rejected"

RejectedWith(c, kind) == Rejected(c) /\ promise[c].value.kind = kind

\* the HTTPS requests the call has issued
Issued(c) == Len(req[c])

IndexOf(s, tok) ==
    IF \E i \in 1..Len(s) : s[i] = tok
    THEN CHOOSE i \in 1..Len(s) : s[i] = tok /\ \A j \in 1..(i - 1) : s[j] # tok
    ELSE 0

HasQuery(path) == IndexOf(path, "?") # 0

\* the text after the first `?`
QueryOf(path) ==
    IF HasQuery(path) THEN SubSeq(path, IndexOf(path, "?") + 1, Len(path)) ELSE <<>>

\* the text before the first `?`
PathOf(path) ==
    IF HasQuery(path) THEN SubSeq(path, 1, IndexOf(path, "?") - 1) ELSE path

\* the pieces of a text between the occurrences of a separator
RECURSIVE Split(_, _)
Split(s, sep) ==
    IF IndexOf(s, sep) = 0 THEN <<s>>
    ELSE <<SubSeq(s, 1, IndexOf(s, sep) - 1)>>
         \o Split(SubSeq(s, IndexOf(s, sep) + 1, Len(s)), sep)

\* the key=value pairs of a built path's query
PairsOf(path) == IF QueryOf(path) = <<>> THEN <<>> ELSE Split(QueryOf(path), "&")

InRange(s) == {s[i] : i \in 1..Len(s)}

(***************************************************************************)
(* C1: whenever the end handler has run on a body that parses as JSON, the *)
(* caller holds the envelope {success, message, code, data} with success   *)
(* true exactly for a status code in 200..299, code the status code,       *)
(* message the status message and data the parsed body.                    *)
(***************************************************************************)
C1_Envelope ==
    \A c \in Calls :
        (pc[c] = "ended" /\ JSONparse(Text(c)).ok)
        => /\ Fulfilled(c)
           /\ promise[c].value =
                 [success |-> res[c].statusCode \in 200..299,
                  message |-> res[c].statusMessage,
                  code    |-> res[c].statusCode,
                  data    |-> JSONparse(Text(c)).val]

C1_Witness ==
    \E c \in Calls :
        /\ pc[c] = "ended"
        /\ res[c].statusCode = 200
        /\ Text(c) = <<"{", "\"a\"", ":", "1", "}">>
        /\ Fulfilled(c)
        /\ promise[c].value.success
        /\ promise[c].value.code = 200
        /\ promise[c].value.data = JObj(<<[k |-> "a", val |-> Num("1")]>>)

(***************************************************************************)
(* C2: a 4xx or 5xx response with a valid JSON body is not an error: the   *)
(* call is fulfilled, never rejected, with success false and the status    *)
(* code as code.                                                           *)
(***************************************************************************)
C2_HttpFailureResolves ==
    \A c \in Calls :
        (pc[c] = "ended" /\ res[c].statusCode \in 400..599 /\ JSONparse(Text(c)).ok)
        => /\ ~Rejected(c)
           /\ Fulfilled(c)
           /\ promise[c].value.success = FALSE
           /\ promise[c].value.code = res[c].statusCode

C2_Witness ==
    \E c \in Calls :
        /\ pc[c] = "ended"
        /\ res[c].statusCode = 404
        /\ JSONparse(Text(c)).ok
        /\ Fulfilled(c)
        /\ promise[c].value.success = FALSE
        /\ promise[c].value.code = 404

(***************************************************************************)
(* C3: a response whose decoded body starts with <!DOCTYPE html> ends, for *)
(* every status code, in an invalid-request error, and at no moment of the *)
(* call does the caller hold an envelope.                                  *)
(***************************************************************************)
C3_PageIsInvalidRequest ==
    \A c \in Calls :
        /\ (pc[c] = "ended" /\ startsWith(Text(c), DOCTYPE))
           => RejectedWith(c, "Invalid request")
        /\ (pc[c] \in {"receiving", "ended", "failed"}
                /\ startsWith(Text(c) \o res[c].rest, DOCTYPE))
           => ~Fulfilled(c)

C3_Witness ==
    \E c \in Calls :
        /\ pc[c] = "ended"
        /\ res[c].statusCode = 200
        /\ startsWith(Text(c), DOCTYPE)
        /\ RejectedWith(c, "Invalid request")

(***************************************************************************)
(* C4: when the body is neither a page nor valid JSON, the end handler     *)
(* calls reject with the parse error and then resolve with a return        *)
(* object, and the caller holds the parse error, not an envelope.          *)
(***************************************************************************)
C4_ParseErrorRejects ==
    \A c \in Calls :
        (pc[c] = "ended" /\ ~startsWith(Text(c), DOCTYPE) /\ ~JSONparse(Text(c)).ok)
        => /\ RejectedWith(c, "SyntaxError")
           /\ settle[c] = <<"reject", "resolve">>
           /\ built[c] = 1

C4_Witness ==
    \E c \in Calls :
        /\ pc[c] = "ended"
        /\ Text(c) = <<"{", "\"a\"">>
        /\ settle[c] = <<"reject", "resolve">>
        /\ RejectedWith(c, "SyntaxError")

IdEndpoints ==
    {"coins.fetch", "coins.fetchTickers", "coins.fetchHistory", "coins.fetchMarketChart",
     "coins.fetchStatusUpdates", "exchanges.fetch", "exchanges.fetchTickers",
     "exchanges.fetchStatusUpdates"}

NotAnId(x) == x.t # "string" \/ x.v = <<>>

C6_InvalidIdRaises ==
    \A c \in Calls :
        (pc[c] # "idle" /\ args[c].ep \in IdEndpoints /\ NotAnId(args[c].a1))
        => /\ pc[c] = "thrown"
           /\ RejectedWith(c, "Invalid parameter")
           /\ Issued(c) = 0

C6_Witness ==
    \E c \in Calls :
        /\ args[c].ep = "coins.fetch"
        /\ args[c].a1 = Str(<<>>)
        /\ pc[c] = "thrown"
        /\ RejectedWith(c, "Invalid parameter")
        /\ Issued(c) = 0

(***************************************************************************)
(* C7: coins.fetchHistory with a valid coin identifier.                    *)
(***************************************************************************)
NoDate(c) == LET d == Get(args[c].snap, "date") IN d.t # "string" \/ d.v = <<>>

HistoryCall(c) ==
    pc[c] # "idle" /\ args[c].ep = "coins.fetchHistory" /\ ~NotAnId(args[c].a1)

NetworkEndpoints == {"onChain.tokenPrice", "onChain.dexes"}

EmptySegment(path) == \E i \in 1..(Len(path) - 1) : path[i] = "/" /\ path[i + 1] = "/"

C8_Original ==
    \A c \in Calls :
        (pc[c] # "idle" /\ args[c].ep \in NetworkEndpoints /\ NotAnId(args[c].a1))
        => /\ RejectedWith(c, "Invalid parameter")
           /\ Issued(c) = 0
           /\ \A i \in 1..Len(req[c]) :
                 "undefined" \notin InRange(req[c][i].path) /\ ~EmptySegment(req[c][i].path)

(***************************************************************************)
(* C9: the query of a built path is exactly the key=value pairs of the     *)
(* params mapping, joined by &, in the mapping's order, and a params       *)
(* mapping that is absent or empty gives a path with no `?`.               *)
(***************************************************************************)
ParamsEndpoints ==
    {"coins.all", "coins.markets", "coins.fetch", "coins.fetchTickers", "coins.fetchHistory",
     "coins.fetchMarketChart", "coins.fetchStatusUpdates", "exchanges.fetchTickers",
     "exchanges.fetchStatusUpdates", "statusUpdates.all", "onChain.networks",
     "onChain.dexes", "onChain.trendingPools", "events.all"}

\* the values the option builder is specified for
Plain(m) == \A i \in 1..Len(m) : m[i].val.t \in {"string", "number"}

EncodedPairs(m) ==
    [i \in 1..Len(m) |-> <<qsEscape(m[i].k), "=">> \o EscapeText(m[i].val.v)]

\* the mapping the call handed to the option builder
Handed(c) == IF args[c].a2.t = "object" THEN heap[args[c].a2.v[1]] ELSE <<>>

C9_Original ==
    \A c \in Calls :
        (Issued(c) = 1 /\ args[c].ep \in ParamsEndpoints /\ Plain(Handed(c)))
        => /\ PairsOf(req[c][1].path) = EncodedPairs(Handed(c))
           /\ Handed(c) = <<>> => ~HasQuery(req[c][1].path)

(***************************************************************************)
(* C10: coins.markets and vs_currency.                                     *)
(***************************************************************************)
MarketsCall(c) == pc[c] # "idle" /\ args[c].ep = "coins.markets"

\* the vs_currency the request has to carry for the params the caller passed
ExpectedCurrency(c) ==
    LET x == Get(args[c].snap, "vs_currency")
    IN  IF x.t = "string" /\ x.v # <<>> THEN EscapeText(x.v) ELSE <<"usd">>

\* the places of a key among the pairs of a query
KeyPairs(pairs, key) == {i \in 1..Len(pairs) : pairs[i] # <<>> /\ pairs[i][1] = key}

\* the call has issued one request, whose query has exactly one entry for the
\* key, with this value
SendsEntry(c, key, value) ==
    /\ Issued(c) = 1
    /\ LET pairs == PairsOf(req[c][1].path)
           at == KeyPairs(pairs, key)
       IN  /\ Cardinality(at) = 1
           /\ \A i \in at : pairs[i] = <<key, "=">> \o value

SendsCurrency(c) == SendsEntry(c, "vs_currency", ExpectedCurrency(c))

\* C10 as stated: without a usable vs_currency (params absent included) the
\* request carries vs_currency=usd, and a non-empty string is sent unchanged.
C10_Original ==
    \A c \in Calls : MarketsCall(c) => SendsCurrency(c)

\* C10 amended: with a params mapping the request carries vs_currency=usd
\* when vs_currency is absent, not a string or empty, and the caller's
\* non-empty string, percent-encoded, otherwise; with params absent or not a
\* mapping the call
\* raises an invalid-parameter error and issues no request.
C10_Amended ==
    \A c \in Calls :
        /\ (MarketsCall(c) /\ args[c].a2.t = "object") => SendsCurrency(c)
        /\ (MarketsCall(c) /\ args[c].a2.t # "object")
           => RejectedWith(c, "Invalid parameter") /\ Issued(c) = 0

C10_Witness ==
    \E c \in Calls :
        /\ MarketsCall(c)
        /\ args[c].a2.t = "object"
        /\ Get(args[c].snap, "vs_currency") = Str(<<>>)
        /\ Issued(c) = 1
        /\ <<"vs_currency", "=", "usd">> \in InRange(PairsOf(req[c][1].path))

(***************************************************************************)
(* C11: coins.markets with `ids` given as a sequence sends one `ids` entry *)
(* whose value is the elements joined by commas in their order (then       *)
(* percent-encoded); an `ids` given as a string is sent as it is.          *)
(***************************************************************************)
\* the elements of a sequence with a comma between neighbours
RECURSIVE CommaSeparated(_)
CommaSeparated(elems) ==
    IF Len(elems) <= 1 THEN elems
    ELSE <<elems[1], ",">> \o CommaSeparated(Tail(elems))

ExpectedIds(c) ==
    LET x == Get(args[c].snap, "ids")
    IN  IF x.t = "array" THEN EscapeText(CommaSeparated(x.v)) ELSE EscapeText(x.v)

C11_IdsJoined ==
    \A c \in Calls :
        (MarketsCall(c) /\ args[c].a2.t = "object"
            /\ Get(args[c].snap, "ids").t \in {"array", "string"})
        => SendsEntry(c, "ids", ExpectedIds(c))

C11_Witness ==
    \E c \in Calls :
        /\ MarketsCall(c)
        /\ Get(args[c].snap, "ids") = Arr(<<"bitcoin", "ethereum">>)
        /\ Issued(c) = 1
        /\ <<"ids", "=", "bitcoin", "%2C", "ethereum">> \in InRange(PairsOf(req[c][1].path))

(***************************************************************************)
(* C12: the request of every endpoint.                                     *)
(***************************************************************************)
\* the path templates of the API, by endpoint, with the identifiers in place
TemplateOf(ep, a1, a2) ==
    CASE ep = "ping" -> <<"/", "ping">>
      [] ep = "global" -> <<"/", "global">>
      [] ep = "coins.all" -> <<"/", "coins">>
      [] ep = "coins.list" -> <<"/", "coins", "/", "list">>
      [] ep = "coins.markets" -> <<"/", "coins", "/", "markets">>
      [] ep = "coins.fetch" -> <<"/", "coins", "/">> \o a1.v
      [] ep = "coins.fetchTickers" -> <<"/", "coins", "/">> \o a1.v \o <<"/", "tickers">>
      [] ep = "coins.fetchHistory" -> <<"/", "coins", "/">> \o a1.v \o <<"/", "history">>
      [] ep = "coins.fetchMarketChart" ->
            <<"/", "coins", "/">> \o a1.v \o <<"/", "market_chart">>
      [] ep = "coins.fetchStatusUpdates" ->
            <<"/", "coins", "/">> \o a1.v \o <<"/", "status_updates">>
      [] ep = "exchanges.all" -> <<"/", "exchanges">>
      [] ep = "exchanges.fetch" -> <<"/", "exchanges", "/">> \o a1.v
      [] ep = "exchanges.fetchTickers" ->
            <<"/", "exchanges", "/">> \o a1.v \o <<"/", "tickers">>
      [] ep = "exchanges.fetchStatusUpdates" ->
            <<"/", "exchanges", "/">> \o a1.v \o <<"/", "status_updates">>
      [] ep = "statusUpdates.all" -> <<"/", "status_updates">>
      [] ep = "onChain.networks" -> <<"/", "onchain", "/", "networks">>
      [] ep = "onChain.tokenPrice" ->
            <<"/", "onchain", "/", "simple", "/", "networks", "/">> \o a1.v
                \o <<"/", "token_price", "/">> \o a2.v
      [] ep = "onChain.dexes" ->
            <<"/", "onchain", "/", "networks", "/">> \o a1.v \o <<"/", "dexes">>
      [] ep = "onChain.trendingPools" ->
            <<"/", "onchain", "/", "networks", "/", "trending_pools">>
      [] ep = "events.all" -> <<"/", "events">>
      [] ep = "events.fetchCountries" -> <<"/", "events", "/", "countries">>
      [] ep = "events.fetchTypes" -> <<"/", "events", "/", "types">>
      [] ep = "exchangeRates.all" -> <<"/", "exchange_rates">>
      [] OTHER -> <<>>

Endpoints ==
    {"ping", "global", "coins.all", "coins.list", "coins.markets", "coins.fetch",
     "coins.fetchTickers", "coins.fetchHistory", "coins.fetchMarketChart",
     "coins.fetchStatusUpdates", "exchanges.all", "exchanges.fetch",
     "exchanges.fetchTickers", "exchanges.fetchStatusUpdates", "statusUpdates.all",
     "onChain.networks", "onChain.tokenPrice", "onChain.dexes", "onChain.trendingPools",
     "events.all", "events.fetchCountries", "events.fetchTypes", "exchangeRates.all"}

\* a call whose identifiers are non-empty strings
ValidInput(c) ==
    /\ args[c].ep \in IdEndpoints \cup NetworkEndpoints => ~NotAnId(args[c].a1)
    /\ args[c].ep = "onChain.tokenPrice" => ~NotAnId(args[c].a2)

VersionPrefix == <<"/", "api", "/", "v", "3">>

OwnRequest(c) ==
    /\ Issued(c) = 1
    /\ req[c][1].method = "GET"
    /\ req[c][1].port = 443
    /\ req[c][1].host = "api.coingecko.com"
    /\ PathOf(req[c][1].path) = VersionPrefix \o TemplateOf(args[c].ep, args[c].a1, args[c].a2)

\* the path is another endpoint's template with the caller's identifiers in place
SharesPath(c) ==
    \E ep \in Endpoints \ {args[c].ep} :
        PathOf(req[c][1].path) = VersionPrefix \o TemplateOf(ep, args[c].a1, args[c].a2)

PathWords == {"list", "markets"}

InitConc ==
    /\ heap = [o \in Objs |-> <<[k |-> "ids", val |-> Arr(<<"bitcoin", "ethereum">>)]>>]
    /\ InitCalls

SharedParams == {Ref(o) : o \in Objs}

ConcStatuses == {200, 404}

ConcBodies == {<<"{", "}">>, <<DOCTYPE>>, <<"{">>}

NextConc ==
    \E c \in Calls :
        \/ coins_markets(c, SharedParams)
        \/ coins_fetch(c, ValidIds, SharedParams)
        \/ coins_fetchMarketChart(c, ValidIds, SharedParams)
        \/ OnResponse(c, ConcStatuses, PlainMessages, ConcBodies)
        \/ OnData(c)
        \/ OnEnd(c)
        \/ OnError(c)
        \/ Return(c)

SpecConc == InitConc /\ [][NextConc]_vars

(***************************************************************************)
(* C13: concurrent calls are independent: the outcome of a call follows    *)
(* from its own response events alone, and what a call sends follows from  *)
(* its own arguments alone, so that two calls in flight with the same      *)
(* arguments, the same params mapping included, have issued the same       *)
(* request.                                                                *)
(***************************************************************************)
InFlight(c) == pc[c] \in {"sent", "receiving"}

\* the outcome the events of the call itself lead to
OwnOutcome(c) ==
    IF pc[c] = "failed" THEN [state |-> "rejected", value |-> [kind |-> res[c].error]]
    ELSE IF startsWith(Text(c), DOCTYPE)
    THEN [state |-> "rejected", value |-> [kind |-> "Invalid request"]]
    ELSE IF ~JSONparse(Text(c)).ok
    THEN [state |-> "rejected", value |-> [kind |-> "SyntaxError"]]
    ELSE [state |-> "fulfilled",
          value |-> [success |-> res[c].statusCode \in 200..299,
                     message |-> res[c].statusMessage,
                     code    |-> res[c].statusCode,
                     data    |-> JSONparse(Text(c)).val]]

OutcomeFromOwnEvents ==
    \A c \in Calls :
        /\ pc[c] \in {"ended", "failed"} => promise[c] = OwnOutcome(c)
        /\ InFlight(c) => promise[c] = Pending

SameArguments(c, d) ==
    /\ args[c].ep = args[d].ep
    /\ args[c].a1 = args[d].a1
    /\ args[c].a2 = args[d].a2

C13_Original ==
    /\ OutcomeFromOwnEvents
    /\ \A c, d \in Calls :
          (InFlight(c) /\ InFlight(d) /\ SameArguments(c, d)) => req[c] = req[d]

(***************************************************************************)
(* C14: coins.fetchMarketChart with a valid coin identifier and a params   *)
(* mapping.                                                                *)
(***************************************************************************)
ChartCall(c) ==
    /\ pc[c] # "idle"
    /\ args[c].ep = "coins.fetchMarketChart"
    /\ ~NotAnId(args[c].a1)
    /\ args[c].a2.t = "object"

\* the query text of a value that is sent as the caller gave it
AsGiven(x) == IF x.t \in {"string", "number"} THEN EscapeText(x.v) ELSE <<>>

\* the request carries exactly one days entry, with this value
SendsDays(c, value) == SendsEntry(c, "days", value)

\* C14 as stated: vs_currency=usd is sent when vs_currency is absent, not a
\* string or empty; days=1 is sent exactly when days is undefined, and every
\* other days, 0 and null included, is sent as the caller gave it.
C14_Original ==
    \A c \in Calls :
        ChartCall(c)
        => /\ SendsCurrency(c)
           /\ LET d == Get(args[c].snap, "days")
              IN  SendsDays(c, IF d.t = "undefined" THEN <<"1">> ELSE AsGiven(d))

\* C14 amended: days=1 is sent exactly when days is undefined or null; every
\* other days, 0 included, is sent as the caller gave it.
C14_Amended ==
    \A c \in Calls :
        ChartCall(c)
        => /\ SendsCurrency(c)
           /\ LET d == Get(args[c].snap, "days")
              IN  SendsDays(c, IF d.t \in {"undefined", "null"} THEN <<"1">> ELSE AsGiven(d))

C14_Witness ==
    \E c \in Calls :
        /\ ChartCall(c)
        /\ Get(args[c].snap, "days") = Num("0")
        /\ ~HasKey(args[c].snap, "vs_currency")
        /\ Issued(c) = 1
        /\ PairsOf(req[c][1].path) = <<<<"days", "=", "0">>, <<"vs_currency", "=", "usd">>>>

(***************************************************************************)
(* SpecAnyOrder: one call at a time, where the events of a request come in *)
(* any order: beyond the orders of Spec, an end event after the request    *)
(* has emitted an error (the response closed early) and an error event     *)
(* after the response has ended                                            *)
(***************************************************************************)
\* res.on('end') after req.on('error'): the end handler runs on what has arrived
LateEnd(c) ==
    /\ pc[c] = "failed"
    /\ res[c].statusCode # 0
    /\ built[c] = 0
    /\ LET calls == endCalls(res[c], body[c])
       IN  /\ promise' = [promise EXCEPT ![c] = apply(@, calls)]
           /\ settle' = [settle EXCEPT ![c] = @ \o Ops(calls)]
    /\ built' = [built EXCEPT ![c] = @ + 1]
    /\ UNCHANGED <<heap, pc, args, req, res, body>>

\* req.on('error') after res.on('end')
LateError(c) ==
    /\ pc[c] = "ended"
    /\ res[c].error = ""
    /\ \E e \in TransportErrors :
          /\ res' = [res EXCEPT ![c].error = e]
          /\ promise' = [promise EXCEPT ![c] = apply(@, errorCalls(e))]
          /\ settle' = [settle EXCEPT ![c] = @ \o Ops(errorCalls(e))]
    /\ UNCHANGED <<heap, pc, args, req, body, built>>

NextAnyOrder ==
    \E c \in Solo :
        \/ ping(c)
        \/ coins_markets(c, SomeParams)
        \/ coins_fetch(c, ValidIds, SomeParams)
        \/ OnResponse(c, ConcStatuses, PlainMessages, Bodies)
        \/ OnData(c)
        \/ OnEnd(c)
        \/ OnError(c)
        \/ LateEnd(c)
        \/ LateError(c)
        \/ Return(c)

SpecAnyOrder == Init /\ [][NextAnyOrder]_vars

(***************************************************************************)
(* C15: a _request invocation issues exactly one HTTPS request; its        *)
(* promise is not fulfilled before the end handler has run; and once the   *)
(* promise is fulfilled or rejected, no later event and no later resolve   *)
(* or reject call changes the outcome or issues another request.           *)
(***************************************************************************)
Settled(c) == promise[c].state \in {"fulfilled", "rejected"}

OneRequest ==
    \A c \in Calls :
        /\ pc[c] \in {"sent", "receiving", "ended", "failed"} => Issued(c) = 1
        /\ pc[c] \in {"idle", "thrown"} => Issued(c) = 0
        /\ Fulfilled(c) => built[c] >= 1

OutcomeKept ==
    \A c \in Calls :
        (Settled(c) /\ pc'[c] # "idle") => (promise'[c] = promise[c] /\ req'[c] = req[c])

C15_SettlesOnce == []OneRequest /\ [][OutcomeKept]_vars

C15_Witness ==
    \E c \in Calls :
        /\ pc[c] = "failed"
        /\ built[c] = 1
        /\ settle[c] = <<"reject", "resolve">>
        /\ JSONparse(Text(c)).ok
        /\ RejectedWith(c, res[c].error)
        /\ Issued(c) = 1

====
